---- MODULE Spec2Model ----
(***************************************************************************)
(* Model of cpytoxlsx3.py (and of the functions cpytoxlsf.py defines       *)
(* differently): the plan builder sheetinfo and the sheet-writing loop of  *)
(* main.  Python strings are sequences of one-character strings; widths    *)
(* are exact rationals kept as integers (see colwidth_from_pixels).        *)
(***************************************************************************)
EXTENDS Integers, Sequences, FiniteSets, TLC

\* Largest number of fields of the exported table.
MaxFields == 2
\* Largest number of data rows of the exported table.
MaxRows == 2

----------------------------------------------------------------------------
(* Python values.  t is the type, n the integer value (the unscaled value  *)
(* of a Decimal with sc decimal places), s the text of a str and the       *)
(* str() of a date, time or datetime.                                      *)

PyVal(t, n, sc, s) == [t |-> t, n |-> n, sc |-> sc, s |-> s]
None == PyVal("None", 0, 0, <<>>)
PyStr(x) == PyVal("str", 0, 0, x)
PyInt(n) == PyVal("int", n, 0, <<>>)
PyDec(n, sc) == PyVal("Decimal", n, sc, <<>>)

\* Python's == on the values a row can hold (an int equals a Decimal of
\* the same numeric value).
RECURSIVE Pow10(_)
Pow10(k) == IF k = 0 THEN 1 ELSE 10 * Pow10(k - 1)
IsNum(v) == v.t \in {"int", "Decimal"}
PyEq(a, b) ==
    IF IsNum(a) /\ IsNum(b) THEN a.n * Pow10(b.sc) = b.n * Pow10(a.sc)
    ELSE a.t = b.t /\ a.n = b.n /\ a.s = b.s
\* Python truthiness.
Truthy(v) ==
    CASE v.t = "None" -> FALSE
      [] IsNum(v) -> v.n # 0
      [] v.t = "str" -> v.s # <<>>
      [] OTHER -> TRUE

----------------------------------------------------------------------------
(* str methods and the regular expressions of sheetinfo.                   *)

\* The character U+0060, which a TLA+ string cannot hold.
GraveAccent == "U+0060"
LowerLetters == <<"a", "b", "c", "d", "e", "f", "g", "h", "i", "j", "k", "l", "m", "n", "o", "p", "q", "r", "s", "t", "u", "v", "w", "x", "y", "z">>
UpperLetters == <<"A", "B", "C", "D", "E", "F", "G", "H", "I", "J", "K", "L", "M", "N", "O", "P", "Q", "R", "S", "T", "U", "V", "W", "X", "Y", "Z">>
Digits == <<"0", "1", "2", "3", "4", "5", "6", "7", "8", "9">>
InSeq(c, q) == \E i \in 1..Len(q) : q[i] = c
IndexIn(c, q) == CHOOSE i \in 1..Len(q) : q[i] = c
upper1(c) == IF InSeq(c, LowerLetters) THEN UpperLetters[IndexIn(c, LowerLetters)] ELSE c
lower1(c) == IF InSeq(c, UpperLetters) THEN LowerLetters[IndexIn(c, UpperLetters)] ELSE c
upper(x) == [i \in 1..Len(x) |-> upper1(x[i])]
lower(x) == [i \in 1..Len(x) |-> lower1(x[i])]
IsSpace(c) == c = " "

RECURSIVE rstrip(_)
rstrip(x) ==
    IF x # <<>> /\ IsSpace(x[Len(x)]) THEN rstrip(SubSeq(x, 1, Len(x) - 1)) ELSE x
RECURSIVE lstrip(_)
lstrip(x) == IF x # <<>> /\ IsSpace(x[1]) THEN lstrip(Tail(x)) ELSE x
strip(x) == lstrip(rstrip(x))

\* sep.join(parts)
RECURSIVE join(_, _)
join(sep, parts) ==
    IF parts = <<>> THEN <<>>
    ELSE IF Len(parts) = 1 THEN parts[1]
    ELSE parts[1] \o sep \o join(sep, Tail(parts))

\* The literal lit (given in lower case) stands at position i of x, letters
\* compared without regard to case (re.IGNORECASE).
LitAt(x, i, lit) ==
    /\ i >= 1
    /\ i + Len(lit) - 1 <= Len(x)
    /\ \A k \in 1..Len(lit) : lower1(x[i + k - 1]) = lit[k]

Least(S) == CHOOSE i \in S : \A j \in S : i <= j
Greatest(S) == CHOOSE i \in S : \A j \in S : i >= j
NoMatch == [found |-> FALSE, g |-> <<>>]
Match(g) == [found |-> TRUE, g |-> g]

\* The end of the longest run of non-space characters (\S+), and of digits
\* ([0-9]*), that starts at position i.
NonSpaceRunEnd(x, i) ==
    Greatest({j \in (i - 1)..Len(x) : \A k \in i..j : ~IsSpace(x[k])})
DigitRunEnd(x, i) ==
    Greatest({j \in (i - 1)..Len(x) : \A k \in i..j : InSeq(x[k], Digits)})

\* re.search(r'break on (\S+)', x, re.IGNORECASE)
NonSpace(c) == ~IsSpace(c)
search_break_on(x) ==
    LET lit == <<"b", "r", "e", "a", "k", " ", "o", "n", " ">>
        starts == {i \in 1..Len(x) :
                     LitAt(x, i, lit) /\ i + Len(lit) <= Len(x)
                                      /\ NonSpace(x[i + Len(lit)])}
    IN  IF starts = {} THEN NoMatch
        ELSE LET b == Least(starts) + Len(lit)
             IN  Match(SubSeq(x, b, NonSpaceRunEnd(x, b)))

\* re.search(r'format="(.*)"', x, re.IGNORECASE): .* is greedy, so the group
\* runs to the last double quote of the text.
search_format(x) ==
    LET lit == <<"f", "o", "r", "m", "a", "t", "=", "\"">>
        quote == lit[Len(lit)]
        starts == {i \in 1..Len(x) :
                     LitAt(x, i, lit)
                     /\ \E j \in (i + Len(lit))..Len(x) : x[j] = quote}
    IN  IF starts = {} THEN NoMatch
        ELSE LET b == Least(starts) + Len(lit)
                 e == Greatest({j \in b..Len(x) : x[j] = quote})
             IN  Match(SubSeq(x, b, e - 1))

\* re.search(r'width=([1-9][0-9]*)', x, re.IGNORECASE)
IsDigit(c) == InSeq(c, Digits)
search_width(x) ==
    LET lit == <<"w", "i", "d", "t", "h", "=">>
        starts == {i \in 1..Len(x) :
                     LitAt(x, i, lit) /\ i + Len(lit) <= Len(x)
                     /\ IsDigit(x[i + Len(lit)]) /\ x[i + Len(lit)] # "0"}
    IN  IF starts = {} THEN NoMatch
        ELSE LET b == Least(starts) + Len(lit)
             IN  Match(SubSeq(x, b, DigitRunEnd(x, b)))

\* re.search(r'wrap=(\*)?on', x, re.IGNORECASE)
search_wrap(x) ==
    \E i \in 1..Len(x) : LitAt(x, i, <<"w", "r", "a", "p", "=", "o", "n">>) \/ LitAt(x, i, <<"w", "r", "a", "p", "=", "*", "o", "n">>)

\* re.search(r'zero(s|es)?=blanks?', x, re.IGNORECASE)
search_zero_blank(x) ==
    \E i \in 1..Len(x) :
        \/ LitAt(x, i, <<"z", "e", "r", "o", "=", "b", "l", "a", "n", "k">>)
        \/ LitAt(x, i, <<"z", "e", "r", "o", "s", "=", "b", "l", "a", "n", "k">>)
        \/ LitAt(x, i, <<"z", "e", "r", "o", "e", "s", "=", "b", "l", "a", "n", "k">>)

\* int(x) of a string of decimal digits
RECURSIVE int(_)
int(x) ==
    IF x = <<>> THEN 0
    ELSE 10 * int(SubSeq(x, 1, Len(x) - 1)) + (IndexIn(x[Len(x)], Digits) - 1)

\* str(n) of an integer n
RECURSIVE StrNat(_)
StrNat(n) == IF n < 10 THEN <<Digits[n + 1]>> ELSE StrNat(n \div 10) \o <<Digits[(n % 10) + 1]>>
StrInt(n) == IF n < 0 THEN <<"-">> \o StrNat(-n) ELSE StrNat(n)

----------------------------------------------------------------------------
(* Width calculations.  A pixel count is kept in units of 1/2800 pixel     *)
(* (the table gives each width as hundredths over 28), a column width in   *)
(* units of 1/235200 width unit (colwidth_from_pixels divides by 12 or 7). *)

PixelUnit == 28 * 100
\* char_groups: the characters of each group and 100 * 28 * their width.
char_groups ==
  <<
    [chars |-> <<"0", "1", "2", "3", "4", "5", "6", "7", "8", "9", "a", "g", "k", "v", "x", "y", "E", "F", "S", "T", "Y", "Z", "#", "$", "*", "+", "<", "=", ">", "?", "^", "_", "|", "~">>, w |-> 20301],
    [chars |-> <<"b", "d", "e", "h", "n", "o", "p", "q", "u", "B", "C", "K", "P", "R", "X">>, w |-> 23201],
    [chars |-> <<"c", "s", "z", "L", "\"", "/", "\\">>, w |-> 17401],
    [chars |-> <<"f", "r", "t", "J", "!", "(", ")", "-", "[", "]", "{", "}">>, w |-> 14501],
    [chars |-> <<"i", "j", "l", "I", ",", ".", ":", ";", GraveAccent>>, w |-> 11601],
    [chars |-> <<"m", "M">>, w |-> 34801],
    [chars |-> <<"w", "%">>, w |-> 31901],
    [chars |-> <<"A", "D", "G", "H", "U", "V">>, w |-> 26101],
    [chars |-> <<"N", "O", "Q", "&">>, w |-> 29001],
    [chars |-> <<"W", "@">>, w |-> 37701],
    [chars |-> <<"'", " ">>, w |-> 8701]
  >>
\* bold_char_groups
bold_char_groups ==
  <<
    [chars |-> <<"0", "1", "2", "3", "4", "5", "6", "7", "8", "9", "a", "g", "k", "v", "x", "y", "E", "F", "S", "T", "Z", "\"", "#", "$", "*", "+", "<", "=", ">", "?", "^", "_", "|", "~">>, w |-> 20301],
    [chars |-> <<"b", "d", "e", "h", "n", "o", "p", "q", "u", "B", "C", "K", "P", "R", "X", "Y">>, w |-> 23201],
    [chars |-> <<"c", "s", "z", "L", "/", "\\">>, w |-> 17401],
    [chars |-> <<"f", "r", "t", "J", "!", "(", ")", "-", "[", "]", GraveAccent, "{", "}">>, w |-> 14501],
    [chars |-> <<"i", "j", "l", "I", "'", ",", ".", ":", ";">>, w |-> 11601],
    [chars |-> <<"m">>, w |-> 34801],
    [chars |-> <<"w", "%", "&">>, w |-> 31901],
    [chars |-> <<"A", "D", "H", "V">>, w |-> 26101],
    [chars |-> <<"G", "N", "O", "Q", "U">>, w |-> 29001],
    [chars |-> <<"M", "@">>, w |-> 37701],
    [chars |-> <<"W">>, w |-> 40601],
    [chars |-> <<" ">>, w |-> 8701]
  >>

\* pixel_widths[char] / bold_pixel_widths[char]; a character the table does
\* not hold is as wide as '0'.
InTable(groups, c) == \E g \in 1..Len(groups) : InSeq(c, groups[g].chars)
TableWidth(groups, c) == groups[CHOOSE g \in 1..Len(groups) : InSeq(c, groups[g].chars)].w
charwidth(groups, c) ==
    IF InTable(groups, c) THEN TableWidth(groups, c) ELSE TableWidth(groups, "0")

\* the loop of integer_digits: one digit for each division by 10
RECURSIVE CountDigits(_)
CountDigits(n) == IF n = 0 THEN 0 ELSE 1 + CountDigits(n \div 10)
integer_digits(n) == IF n = 0 THEN 1 ELSE CountDigits(n)

Abs(n) == IF n < 0 THEN -n ELSE n
\* int(n) of a non-negative int or Decimal
Trunc(v) == Abs(v.n) \div Pow10(v.sc)

\* number_analysis without the decimal point among the digits
number_analysis_point_uncounted(v, dp) ==
    LET signs == IF v.n < 0 THEN 1 ELSE 0
        points == IF dp > 0 THEN 1 ELSE 0
        idigits == integer_digits(Trunc(v))
    IN  [digits |-> idigits + dp,
         thousands |-> (idigits - 1) \div 3,
         points |-> points,
         signs |-> signs]

\* number_analysis(n, dp) of cpytoxlsx3.py: (digits, thousands, points, signs)
number_analysis(v, dp) ==
    LET signs == IF v.n < 0 THEN 1 ELSE 0
        points == IF dp > 0 THEN 1 ELSE 0
        idigits == integer_digits(Trunc(v))
    IN  [digits |-> idigits + points + dp,
         thousands |-> (idigits - 1) \div 3,
         points |-> points,
         signs |-> signs]

\* number_analysis(n, dp) of cpytoxlsf.py, for an int n
number_analysis_xlsf(v, dp) ==
    LET signs == IF v.n < 0 THEN 1 ELSE 0
        points == IF dp > 0 THEN 1 ELSE 0
        idigits == integer_digits(Abs(v.n))
    IN  [digits |-> idigits + dp,
         thousands |-> (idigits - 1) \div 3,
         points |-> points,
         signs |-> signs]

colwidth_from_pixels(pixels) ==
    LET p1 == IF pixels > 34 * PixelUnit THEN pixels - PixelUnit ELSE pixels
        p2 == IF p1 > 62 * PixelUnit THEN p1 - PixelUnit ELSE p1
    IN  IF p2 < 12 * PixelUnit THEN 7 * p2 ELSE 12 * (p2 - 5 * PixelUnit)

RECURSIVE SumWidths(_, _)
SumWidths(groups, x) ==
    IF x = <<>> THEN 0 ELSE charwidth(groups, x[1]) + SumWidths(groups, Tail(x))

\* textwidth(data, bold) of the text x = str(data)
textwidth(x, bold) ==
    LET charwidths == IF bold THEN bold_char_groups ELSE char_groups
    IN  colwidth_from_pixels(7 * PixelUnit + SumWidths(charwidths, x))

numwidth(v, dp, use_commas) ==
    LET a == number_analysis(v, dp)
        cw(c) == charwidth(char_groups, c)
    IN  colwidth_from_pixels(
            7 * PixelUnit + a.digits * cw("0")
            + (IF use_commas THEN a.thousands * cw(",") ELSE 0)
            + a.points * cw(".")
            + a.signs * cw("-"))

datewidth ==
    LET cw(c) == charwidth(char_groups, c)
    IN  colwidth_from_pixels(7 * PixelUnit + 8 * cw("0") + 2 * cw("/"))

Max(a, b) == IF a >= b THEN a ELSE b

timewidth ==
    LET cw(c) == charwidth(char_groups, c)
    IN  colwidth_from_pixels(
            7 * PixelUnit + 6 * cw("0") + 2 * cw(":") + cw(" ")
            + Max(cw("A"), cw("P")) + cw("M"))

timestampwidth ==
    LET cw(c) == charwidth(char_groups, c)
    IN  colwidth_from_pixels(
            7 * PixelUnit + 12 * cw("0") + (2 * cw("/") + 2 * cw(":"))
            + 2 * cw(" ") + Max(cw("A"), cw("P")) + cw("M"))

\* str(data) of a row value
StrDecimal(v) ==
    LET whole == StrNat(Abs(v.n) \div Pow10(v.sc))
        frac == StrNat(Pow10(v.sc) + (Abs(v.n) % Pow10(v.sc)))
    IN  (IF v.n < 0 THEN <<"-">> ELSE <<>>) \o whole
        \o (IF v.sc > 0 THEN <<".">> \o Tail(frac) ELSE <<>>)
str(v) ==
    CASE v.t = "None" -> <<"N", "o", "n", "e">>
      [] v.t = "int" -> StrInt(v.n)
      [] v.t = "Decimal" -> StrDecimal(v)
      [] OTHER -> v.s

----------------------------------------------------------------------------
(* Number formatting and the numeric date / time test.                     *)

RECURSIVE Zeros(_)
Zeros(k) == IF k <= 0 THEN <<>> ELSE <<"0">> \o Zeros(k - 1)

\* default_numformat with the decimal point written for every dp
default_numformat_point_always(dp) ==
    <<"0">> \o <<".">> \o Zeros(dp)

\* default_numformat(dp): the num_format string
default_numformat(dp) ==
    <<"0">> \o (IF dp > 0 THEN <<".">> \o Zeros(dp) ELSE <<>>)

\* editcode with the literal zero for every supported code
editcode_zero_for_all(code, dp) ==
    LET c == lower(code)
        isin(set) == InSeq(c[1], set)
    IN  IF Len(c) # 1 \/ ~isin(<<"1", "2", "3", "4", "n", "o", "p", "q">>) THEN default_numformat(dp)
        ELSE LET sign == IF isin(<<"n", "o", "p", "q">>) THEN <<"-">> ELSE <<>>
                 integers == IF isin(<<"1", "2", "n", "o">>) THEN <<"#", ",", "#", "#", "#">> ELSE <<"#">>
                 decimals == IF dp > 0 THEN <<".">> \o Zeros(dp) ELSE <<>>
                 positive == integers \o decimals
                 negative == sign \o positive
                 zero == SubSeq(positive, 1, Len(positive) - 1) \o <<"0">>
             IN  join(<<";">>, <<positive, negative, zero>>)

\* editcode(code, dp): the num_format string
editcode(code, dp) ==
    LET c == lower(code)
        isin(set) == InSeq(c[1], set)
    IN  IF Len(c) # 1 \/ ~isin(<<"1", "2", "3", "4", "n", "o", "p", "q">>) THEN default_numformat(dp)
        ELSE LET sign == IF isin(<<"n", "o", "p", "q">>) THEN <<"-">> ELSE <<>>
                 integers == IF isin(<<"1", "2", "n", "o">>) THEN <<"#", ",", "#", "#", "#">> ELSE <<"#">>
                 decimals == IF dp > 0 THEN <<".">> \o Zeros(dp) ELSE <<>>
                 positive == integers \o decimals
                 negative == sign \o positive
                 zero == IF isin(<<"1", "3", "n", "p">>)
                         THEN SubSeq(positive, 1, Len(positive) - 1) \o <<"0">>
                         ELSE <<>>
             IN  join(<<";">>, <<positive, negative, zero>>)

EditWordDate1 == <<"'", " ", " ", " ", " ", "-", " ", " ", "-", " ", " ", "'">>
EditWordDate2 == <<"'", " ", " ", " ", " ", "/", " ", " ", "/", " ", " ", "'">>
EditWordTime1 == <<"'", " ", " ", ".", " ", " ", ".", " ", " ", "'">>
EditWordTime2 == <<"'", " ", " ", ":", " ", " ", ":", " ", " ", "'">>
\* fieldsize is the pair (digits, decimal_places) of a numeric field; the
\* byte length of any other field is kept as a 1-tuple, which like the
\* Python int never equals a pair.
is_numeric_date(fieldsize, editword) ==
    fieldsize = <<8, 0>> /\ editword \in {EditWordDate1, EditWordDate2}
is_numeric_time(fieldsize, editword) ==
    fieldsize = <<6, 0>> /\ editword \in {EditWordTime1, EditWordTime2}

----------------------------------------------------------------------------
(* The inputs: the field descriptions DSPFFD gives for the exported table, *)
(* the record text, and the values the table's columns hold.               *)

\* cs.description of the query on qtemp.dspffdpf
all_fields ==
    <<<<"W", "H", "F", "L", "D", "E">>, <<"W", "H", "F", "T", "X", "T">>, <<"W", "H", "C", "H", "D", "1">>, <<"W", "H", "C", "H", "D", "2">>, <<"W", "H", "C", "H", "D", "3">>, <<"W", "H", "T", "E", "X", "T">>,
      <<"W", "H", "F", "L", "D", "D">>, <<"W", "H", "F", "L", "D", "P">>, <<"W", "H", "F", "L", "D", "B">>, <<"W", "H", "E", "C", "D", "E">>, <<"W", "H", "E", "W", "R", "D">>>>

FieldDesc(chd, ftxt, fldd, fldp, fldb, ecde, ewrd, vals) ==
    [chd |-> chd, ftxt |-> ftxt, fldd |-> fldd, fldp |-> fldp, fldb |-> fldb,
     ecde |-> ecde, ewrd |-> ewrd, vals |-> vals]

NativeDate == PyVal("date", 0, 0, <<"2", "0", "2", "4", "-", "0", "1", "-", "1", "5">>)
NativeTime == PyVal("time", 0, 0, <<"0", "9", ":", "3", "0", ":", "0", "0">>)
NativeTimestamp == PyVal("datetime", 0, 0, <<"2", "0", "2", "4", "-", "0", "1", "-", "1", "5", " ", "0", "9", ":", "3", "0", ":", "0", "0">>)

\* The field descriptions a table is built from (values as pyodbc returns
\* them: character data blank-padded, packed and zoned numbers as Decimal).
FieldDescs ==
    { \* character field without a column heading
      FieldDesc(<<<<>>, <<>>, <<>>>>, <<>>, 0, 0, 10, <<>>, <<>>, {PyStr(<<"a", "b", " ", " ">>), None}),
      \* skipped numeric field
      FieldDesc(<<<<"*", "s", "k", "i", "p", " ", " ">>, <<>>, <<>>>>, <<>>, 5, 2, 5, <<"1", " ">>, <<>>,
                {PyDec(0, 2), PyDec(123450, 2)}),
      \* numeric date with a wide heading and a format string
      FieldDesc(<<<<"C", "u", "s", "t", "o", "m", "e", "r">>, <<"O", "r", "d", "e", "r">>, <<"D", "a", "t", "e">>>>, <<"f", "o", "r", "m", "a", "t", "=", "\"", "0", "\"">>, 8, 0, 8, <<>>, EditWordDate1,
                {PyDec(0, 0), PyDec(20240115, 0)}),
      \* numeric time with a blank heading
      FieldDesc(<<<<"*", "B", "L", "A", "N", "K", "S">>, <<>>, <<>>>>, <<>>, 6, 0, 6, <<>>, EditWordTime2,
                {PyDec(0, 0), PyDec(93000, 0)}),
      \* amount with an edit code and zero suppression
      FieldDesc(<<<<"A", "m", "t">>, <<>>, <<>>>>, <<"Z", "e", "r", "o", "s", "=", "B", "l", "a", "n", "k">>, 7, 2, 7, <<"Q">>, <<"'", ",", " ", " ", " ", ",", " ", " ", " ", ".", " ", " ", "'">>,
                {PyDec(0, 2), PyDec(-123450, 2), None}),
      \* wrapped character field with an explicit width
      FieldDesc(<<<<"A">>, <<>>, <<"B">>>>, <<"N", "o", "t", "e", " ", "w", "r", "a", "p", "=", "*", "o", "n", " ", "z", "e", "r", "o", "=", "b", "l", "a", "n", "k", " ", "W", "i", "d", "t", "h", "=", "1", "5">>, 0, 0, 30, <<>>, <<>>,
                {PyStr(<<"x">>), None}),
      \* date, time and timestamp fields
      FieldDesc(<<<<"S", "h", "i", "p">>, <<"D", "a", "t", "e">>, <<>>>>, <<>>, 0, 0, 10, <<>>, <<>>, {NativeDate}),
      FieldDesc(<<<<"S", "h", "i", "p">>, <<"T", "i", "m", "e">>, <<>>>>, <<>>, 0, 0, 8, <<>>, <<>>, {NativeTime}),
      FieldDesc(<<<<"C", "h", "a", "n", "g", "e", "d">>, <<>>, <<>>>>, <<>>, 0, 0, 26, <<>>, <<>>, {NativeTimestamp}) }

\* The field names of a table, in order.
FieldNameOrders ==
    { <<<<"W", "H", "F", "L", "D", "E">>, <<"O", "R", "D", "E", "R", "N", "O">>, <<"A", "M", "T">>, <<"Q", "T", "Y">>>>,
      <<<<"O", "R", "D", "E", "R", "N", "O">>, <<"A", "M", "T">>, <<"W", "H", "F", "L", "D", "E">>, <<"Q", "T", "Y">>>> }

\* The record text of a table.
RecordTexts ==
    { <<>>,
      <<"s", "o", "m", "e", " ", "t", "e", "x", "t", " ", "b", "r", "e", "a", "k", " ", "o", "n", " ", "w", "h", "f", "l", "d", "e", " ", "m", "o", "r", "e", " ", "t", "e", "x", "t">>,
      <<"B", "r", "e", "a", "k", " ", "O", "n", " ", "O", "R", "D", "E", "R", "N", "O", " ", " ">> }

\* One row of qtemp.dspffdpf as the query returns it.
DspffdRow(name, rcdtext, d) ==
    [whflde |-> name, whftxt |-> d.ftxt, whchd |-> d.chd, whtext |-> rcdtext,
     whfldd |-> d.fldd, whfldp |-> d.fldp, whfldb |-> d.fldb,
     whecde |-> d.ecde, whewrd |-> d.ewrd, vals |-> d.vals]

\* The record texts of the n rows of dspffdpf: the same text in every row
\* for a table with one record format, and for a file with two formats a
\* directive in the text of the later format only.
RecordTextsOf(n) ==
    {[i \in 1..n |-> t] : t \in RecordTexts}
        \cup {[i \in 1..n |-> IF i = 1 THEN <<>> ELSE <<"b", "r", "e", "a", "k", " ", "o", "n", " ", "w", "h", "f", "l", "d", "e">>]}

Tables ==
    UNION { { [i \in 1..n |-> DspffdRow(names[i], texts[i], descs[i])] :
                names \in FieldNameOrders, texts \in RecordTextsOf(n),
                descs \in [1..n -> FieldDescs] } : n \in 1..MaxFields }

\* fetch(cs): strings right-trimmed, Decimals of scale zero made int
fetch_value(v) ==
    CASE v.t = "None" -> v
      [] v.t = "str" -> PyStr(rstrip(v.s))
      [] v.t = "Decimal" /\ v.sc = 0 -> PyInt(v.n)
      [] OTHER -> v
fetch_dspffd(r) ==
    [r EXCEPT !.whflde = rstrip(@), !.whftxt = rstrip(@),
              !.whchd = [i \in 1..Len(@) |-> rstrip(@[i])],
              !.whtext = rstrip(@), !.whecde = rstrip(@), !.whewrd = rstrip(@)]

----------------------------------------------------------------------------
(* The program state.                                                      *)

VARIABLES
    pc,          \* where the program is: "sheetinfo", "headings", "rows",
                 \* "cells", "setwidths", "done", or "error" once an
                 \* exception has ended it
    dspffdpf,    \* the rows of qtemp.dspffdpf, one for each field of the table
    fx,          \* number of rows of dspffdpf that sheetinfo has processed
    s,           \* the SheetInfo object
    rx,          \* worksheet row index
    hx,          \* row index of the column headings
    maxwidths,   \* widest data of each column
    bx,          \* ordinal position of the break field, -1 for None
    breakvalue,  \* break value of the previous row
    rowno,       \* number of data rows fetched
    row,         \* the data row being written
    cx,          \* index of the next value of row
    lastwrite,   \* the last cell handled: what was written where
    colset,      \* widths given to ws.set_column
    call         \* a call of one function on its own: arguments and result

vars == <<pc, dspffdpf, fx, s, rx, hx, maxwidths, bx, breakvalue, rowno, row,
          cx, lastwrite, colset, call>>

\* Python dicts are functions; d[k] = v is DictSet.
DictSet(d, k, v) == [x \in (DOMAIN d) \cup {k} |-> IF x = k THEN v ELSE d[x]]
HasKey(d, k) == k \in DOMAIN d

\* SheetInfo()
NewSheetInfo ==
    [fieldlist |-> <<>>, headings |-> <<>>, numformats |-> <<>>,
     dateflags |-> <<>>, timeflags |-> <<>>, commaflags |-> <<>>,
     decplaces |-> <<>>, colwidths |-> <<>>, wrapped |-> <<>>,
     blankzeros |-> <<>>, breakfield |-> None]

NoWrite == [rx |-> -1, cx |-> -1, field |-> <<>>, value |-> None,
            style |-> "nothing", ymd |-> <<>>]

NoCall == [f |-> "none"]

\* The state of the program when sheetinfo starts on the table t.
Start(t) ==
    /\ dspffdpf = t
    /\ fx = 0
    /\ s = NewSheetInfo
    /\ rx = 0
    /\ hx = 0
    /\ maxwidths = <<>>
    /\ bx = -1
    /\ breakvalue = None
    /\ rowno = 0
    /\ row = <<>>
    /\ cx = 0
    /\ lastwrite = NoWrite
    /\ colset = <<>>

Init ==
    /\ pc = "sheetinfo"
    /\ \E t \in Tables : Start(t)
    /\ call = NoCall

----------------------------------------------------------------------------
(* sheetinfo: one step of the loop over the rows of dspffdpf.              *)

\* set_breakfield that takes '' for a break field not yet calculated
set_breakfield_recalculated(breakfield, rcdtext) ==
    IF breakfield = None \/ breakfield = PyStr(<<>>)
    THEN LET match == search_break_on(rcdtext)
             named == IF match.found THEN PyStr(upper(match.g)) ELSE breakfield
         IN  IF named = None \/ ~InSeq(named.s, all_fields) THEN PyStr(<<>>) ELSE named
    ELSE breakfield

\* "Set break field": the break field after a row with record text rcdtext
set_breakfield(breakfield, rcdtext) ==
    IF breakfield = None
    THEN LET match == search_break_on(rcdtext)
             named == IF match.found THEN PyStr(upper(match.g)) ELSE breakfield
         IN  IF named = None \/ ~InSeq(named.s, all_fields) THEN PyStr(<<>>) ELSE named
    ELSE breakfield

\* is_skip for the upper-case spelling only
is_skip_in_upper_case(colhdg) == strip(join(<<" ">>, colhdg)) = <<"*", "S", "K", "I", "P">>

\* The heading text of the three heading lines, before the special values
heading_text(colhdg) == strip(join(<<" ">>, colhdg))
is_skip(colhdg) == upper(heading_text(colhdg)) = <<"*", "S", "K", "I", "P">>
\* The Excel column heading of a field that is not skipped
column_heading(fieldname, colhdg) ==
    LET heading == heading_text(colhdg)
    IN  IF upper(heading) \in {<<"*", "B", "L", "A", "N", "K">>, <<"*", "B", "L", "A", "N", "K", "S">>} THEN <<>>
        ELSE IF heading = <<>> THEN <<>>
        ELSE heading

\* number_format with the edit code of a numeric field taken first
number_format_editcode_first(fieldtext, numeric, edtcde, decimal_places) ==
    LET match == search_format(fieldtext)
    IN  IF numeric THEN Match(editcode(edtcde, decimal_places))
        ELSE IF match.found THEN Match(match.g)
        ELSE NoMatch

\* "Look for number format string": the num_format string, or NoMatch
number_format(fieldtext, numeric, edtcde, decimal_places) ==
    LET match == search_format(fieldtext)
    IN  IF match.found THEN Match(match.g)
        ELSE IF numeric THEN Match(editcode(edtcde, decimal_places))
        ELSE NoMatch

\* s.commaflags[fieldname] for the resolved numformat
comma_flag(numformat) == InSeq(",", numformat.g)

\* field_size with the byte length of a character field as a digit count
field_size_of_bytes(digits, decimal_places, byte_length) ==
    IF digits # 0 THEN <<digits, decimal_places>> ELSE <<byte_length, 0>>

\* "Set field size and type": fieldsize, a pair for a numeric field only
field_size(digits, decimal_places, byte_length) ==
    IF digits # 0 THEN <<digits, decimal_places>> ELSE <<byte_length>>

\* The body of the loop for one fetched row r of dspffdpf
sheetinfo_row(si, r) ==
    LET fieldname == r.whflde
        fieldtext == r.whftxt
        s1 == [si EXCEPT !.breakfield = set_breakfield(@, r.whtext)]
        numeric == r.whfldd # 0
        fieldsize == field_size(r.whfldd, r.whfldp, r.whfldb)
        numformat == number_format(fieldtext, numeric, r.whecde, r.whfldp)
        width == search_width(fieldtext)
    IN  IF is_skip(r.whchd) THEN s1
        ELSE [s1 EXCEPT
                !.fieldlist = Append(@, fieldname),
                !.headings = DictSet(@, fieldname, column_heading(fieldname, r.whchd)),
                !.decplaces = IF numeric THEN DictSet(@, fieldname, r.whfldp) ELSE @,
                !.numformats = IF numformat.found
                               THEN DictSet(@, fieldname, numformat.g) ELSE @,
                !.commaflags = IF numformat.found
                               THEN DictSet(@, fieldname, comma_flag(numformat)) ELSE @,
                !.dateflags = DictSet(@, fieldname, is_numeric_date(fieldsize, r.whewrd)),
                !.timeflags = DictSet(@, fieldname, is_numeric_time(fieldsize, r.whewrd)),
                !.colwidths = IF width.found
                              THEN DictSet(@, fieldname, int(width.g)) ELSE @,
                !.wrapped = IF search_wrap(fieldtext)
                            THEN DictSet(@, fieldname, TRUE) ELSE @,
                !.blankzeros = IF search_zero_blank(fieldtext)
                               THEN DictSet(@, fieldname, TRUE) ELSE @]

SheetInfoRow ==
    /\ pc = "sheetinfo"
    /\ fx < Len(dspffdpf)
    /\ s' = sheetinfo_row(s, fetch_dspffd(dspffdpf[fx + 1]))
    /\ fx' = fx + 1
    /\ pc' = IF fx + 1 = Len(dspffdpf) THEN "headings" ELSE "sheetinfo"
    /\ UNCHANGED <<dspffdpf, rx, hx, maxwidths, bx, breakvalue, rowno, row, cx,
                   lastwrite, colset, call>>

----------------------------------------------------------------------------
(* main: the title rows, the heading row, the data rows, the widths.       *)

\* The numbers of title parameters (sys.argv[3:]) tried.
TitleCounts == {0, 2}

\* One column width unit in the unit of maxwidths.
WidthUnit == 84 * PixelUnit

\* fmt.fieldlist.index(name), counted from 0
list_index(fieldlist, name) == (CHOOSE i \in 1..Len(fieldlist) : fieldlist[i] = name) - 1

\* From the title rows to the position of the break field.
WriteHeadings ==
    /\ pc = "headings"
    /\ \E titles \in TitleCounts :
         /\ rx' = IF titles > 0 THEN titles + 1 ELSE 0
         /\ hx' = rx'
    /\ maxwidths' =
         [col \in 1..Len(s.fieldlist) |->
            IF ~HasKey(s.colwidths, s.fieldlist[col])
            THEN textwidth(s.headings[s.fieldlist[col]], TRUE) ELSE 0]
    /\ breakvalue' = None
    /\ IF Truthy(s.breakfield)
       THEN IF InSeq(s.breakfield.s, s.fieldlist)
            THEN bx' = list_index(s.fieldlist, s.breakfield.s) /\ pc' = "rows"
            ELSE bx' = -1 /\ pc' = "error"    \* ValueError of list.index
       ELSE bx' = -1 /\ pc' = "rows"
    /\ UNCHANGED <<dspffdpf, fx, s, rowno, row, cx, lastwrite, colset, call>>

\* The rows the table can hold: one value for each field of the table.
AllValues == UNION {dspffdpf[i].vals : i \in 1..Len(dspffdpf)}
TableRows ==
    {r \in [1..Len(dspffdpf) -> AllValues] :
        \A i \in 1..Len(dspffdpf) : r[i] \in dspffdpf[i].vals}

\* "rx += 1" and the blank row before a row whose break value is new
next_rx(r, b, prev, value) ==
    IF b # -1 /\ ~PyEq(value, prev) /\ prev # None THEN r + 2 ELSE r + 1

NextRow ==
    /\ pc = "rows"
    /\ rowno < MaxRows
    /\ \E raw \in TableRows :
         LET fetched == [i \in 1..Len(raw) |-> fetch_value(raw[i])]
         IN  /\ row' = fetched
             /\ rx' = next_rx(rx, bx, breakvalue, IF bx # -1 THEN fetched[bx + 1] ELSE None)
             /\ breakvalue' = IF bx # -1 THEN fetched[bx + 1] ELSE breakvalue
    /\ rowno' = rowno + 1
    /\ cx' = 0
    /\ pc' = "cells"
    /\ UNCHANGED <<dspffdpf, fx, s, hx, maxwidths, bx, lastwrite, colset, call>>

\* date(year, month, day) and time(hour, minute, second) raise ValueError
\* for a component out of range.
IsLeap(y) == (y % 4 = 0 /\ y % 100 # 0) \/ y % 400 = 0
DaysInMonth(y, m) ==
    IF m = 2 THEN (IF IsLeap(y) THEN 29 ELSE 28)
    ELSE IF m \in {4, 6, 9, 11} THEN 30 ELSE 31
valid_date(y, m, d) ==
    y >= 1 /\ y <= 9999 /\ m >= 1 /\ m <= 12 /\ d >= 1 /\ d <= DaysInMonth(y, m)
valid_time(h, m, sec) ==
    h >= 0 /\ h <= 23 /\ m >= 0 /\ m <= 59 /\ sec >= 0 /\ sec <= 59
\* decode3 with the two results of the second divmod taken in the other order
decode3_day_first(n) == <<n \div 10000, (n % 10000) % 100, (n % 10000) \div 100>>

\* divmod(divmod(value, 10000)[1], 100) after divmod(value, 10000)[0]
decode3(n) == <<n \div 10000, (n % 10000) \div 100, (n % 10000) % 100>>

Written(style, ymd) == [err |-> FALSE, style |-> style, ymd |-> ymd]
Raised == [err |-> TRUE, style |-> "nothing", ymd |-> <<>>]

\* cell_write with the number format looked at before the zero suppression
cell_write_format_first(si, fieldname, value) ==
    IF value.t = "datetime" THEN Written("timestamp_style", <<>>)
    ELSE IF value.t = "date" THEN Written("date_style", <<>>)
    ELSE IF value.t = "time" THEN Written("time_style", <<>>)
    ELSE IF si.dateflags[fieldname]
         THEN IF ~Truthy(value) THEN Written("nothing", <<>>)
              ELSE IF value.t # "int" THEN Raised
              ELSE LET ymd == decode3(value.n)
                   IN  IF valid_date(ymd[1], ymd[2], ymd[3])
                       THEN Written("date_style", ymd) ELSE Raised
    ELSE IF si.timeflags[fieldname]
         THEN IF ~Truthy(value) THEN Written("nothing", <<>>)
              ELSE IF value.t # "int" THEN Raised
              ELSE LET hms == decode3(value.n)
                   IN  IF valid_time(hms[1], hms[2], hms[3])
                       THEN Written("time_style", hms) ELSE Raised
    ELSE IF HasKey(si.numformats, fieldname) THEN Written("numformat", <<>>)
    ELSE IF PyEq(value, PyInt(0)) /\ HasKey(si.blankzeros, fieldname)
         THEN Written("nothing", <<>>)
    ELSE IF HasKey(si.wrapped, fieldname) THEN Written("wrapped_style", <<>>)
    ELSE IF value.t = "str" THEN Written("text_style", <<>>)
    ELSE Written("unstyled", <<>>)

\* The write of one cell: the style of the ws.write call made, "nothing"
\* when no call is made, or the exception.
cell_write(si, fieldname, value) ==
    IF value.t = "datetime" THEN Written("timestamp_style", <<>>)
    ELSE IF value.t = "date" THEN Written("date_style", <<>>)
    ELSE IF value.t = "time" THEN Written("time_style", <<>>)
    ELSE IF si.dateflags[fieldname]
         THEN IF ~Truthy(value) THEN Written("nothing", <<>>)
              ELSE IF value.t # "int" THEN Raised    \* TypeError
              ELSE LET ymd == decode3(value.n)
                   IN  IF valid_date(ymd[1], ymd[2], ymd[3])
                       THEN Written("date_style", ymd) ELSE Raised
    ELSE IF si.timeflags[fieldname]
         THEN IF ~Truthy(value) THEN Written("nothing", <<>>)
              ELSE IF value.t # "int" THEN Raised    \* TypeError
              ELSE LET hms == decode3(value.n)
                   IN  IF valid_time(hms[1], hms[2], hms[3])
                       THEN Written("time_style", hms) ELSE Raised
    ELSE IF PyEq(value, PyInt(0)) /\ HasKey(si.blankzeros, fieldname)
         THEN Written("nothing", <<>>)
    ELSE IF HasKey(si.numformats, fieldname) THEN Written("numformat", <<>>)
    ELSE IF HasKey(si.wrapped, fieldname) THEN Written("wrapped_style", <<>>)
    ELSE IF value.t = "str" THEN Written("text_style", <<>>)
    ELSE Written("unstyled", <<>>)

Measured(w) == [err |-> FALSE, w |-> w]
\* The new maxwidths[cx] of a column without explicit width, or the
\* TypeError of number_analysis for a value that is no number.
cell_width(si, fieldname, value, old) ==
    LET fixed == IF value.t = "date" \/ si.dateflags[fieldname] THEN datewidth
                 ELSE IF value.t = "time" \/ si.timeflags[fieldname] THEN timewidth
                 ELSE IF value.t = "datetime" THEN timestampwidth
                 ELSE old
    IN  IF HasKey(si.decplaces, fieldname)
        THEN IF ~IsNum(value) THEN [err |-> TRUE, w |-> old]
             ELSE Measured(Max(fixed, numwidth(value, si.decplaces[fieldname],
                                               si.commaflags[fieldname])))
        ELSE Measured(Max(fixed, textwidth(str(value), FALSE)))

WriteCell ==
    /\ pc = "cells"
    /\ IF cx >= Len(s.fieldlist)
       THEN \* IndexError of fmt.fieldlist[cx]
            /\ pc' = "error"
            /\ UNCHANGED <<maxwidths, lastwrite, cx>>
       ELSE LET fieldname == s.fieldlist[cx + 1]
                value == row[cx + 1]
                w == cell_write(s, fieldname, value)
                m == IF HasKey(s.colwidths, fieldname)
                     THEN Measured(maxwidths[cx + 1])
                     ELSE cell_width(s, fieldname, value, maxwidths[cx + 1])
            IN  IF w.err
                THEN /\ pc' = "error"
                     /\ UNCHANGED <<maxwidths, lastwrite, cx>>
                ELSE /\ lastwrite' = [rx |-> rx, cx |-> cx, field |-> fieldname,
                                      value |-> value, style |-> w.style,
                                      ymd |-> w.ymd]
                     /\ maxwidths' = [maxwidths EXCEPT ![cx + 1] = m.w]
                     /\ cx' = IF m.err THEN cx ELSE cx + 1
                     /\ pc' = IF m.err THEN "error"
                              ELSE IF cx + 1 = Len(row) THEN "rows" ELSE "cells"
    /\ UNCHANGED <<dspffdpf, fx, s, rx, hx, bx, breakvalue, rowno, row, colset, call>>

\* The loop over the rows is over.
EndRows ==
    /\ pc = "rows"
    /\ pc' = "setwidths"
    /\ UNCHANGED <<dspffdpf, fx, s, rx, hx, maxwidths, bx, breakvalue, rowno,
                   row, cx, lastwrite, colset, call>>

\* "Set column widths"
SetColumnWidths ==
    /\ pc = "setwidths"
    /\ colset' =
         [col \in 1..Len(s.fieldlist) |->
            IF HasKey(s.colwidths, s.fieldlist[col])
            THEN s.colwidths[s.fieldlist[col]] * WidthUnit
            ELSE maxwidths[col]]
    /\ pc' = "done"
    /\ UNCHANGED <<dspffdpf, fx, s, rx, hx, maxwidths, bx, breakvalue, rowno,
                   row, cx, lastwrite, call>>

Next ==
    \/ SheetInfoRow
    \/ WriteHeadings
    \/ NextRow
    \/ WriteCell
    \/ EndRows
    \/ SetColumnWidths

Spec == Init /\ [][Next]_vars

----------------------------------------------------------------------------
(* The functions called on their own.  pc = "call" while none of the       *)
(* program runs; call holds the arguments and, once made, the result.      *)

\* Longest integer part of an argument of number_analysis, in digits.
MaxDigits == 7
\* Largest number of decimal places of an argument.
MaxDecimals == 3

\* The integers with 1 to MaxDigits digits that begin or end a digit count.
NumberArguments ==
    {0} \cup {Pow10(k) : k \in 1..(MaxDigits - 1)}
        \cup {Pow10(k) - 1 : k \in 1..MaxDigits}

InitNumber ==
    /\ pc = "call"
    /\ Start(<<>>)
    /\ \E n \in NumberArguments, dp \in 0..MaxDecimals :
         call = [f |-> "number_analysis", n |-> n, dp |-> dp, done |-> "no"]

\* number_analysis(n, dp) of cpytoxlsx3.py
CallNumberAnalysis ==
    /\ pc = "call"
    /\ call.f = "number_analysis"
    /\ call.done = "no"
    /\ call' = [f |-> call.f, n |-> call.n, dp |-> call.dp, done |-> "cpytoxlsx3",
                result |-> number_analysis(PyInt(call.n), call.dp)]
    /\ UNCHANGED <<pc, dspffdpf, fx, s, rx, hx, maxwidths, bx, breakvalue, rowno,
                   row, cx, lastwrite, colset>>

\* number_analysis(n, dp) of cpytoxlsf.py
CallNumberAnalysisXlsf ==
    /\ pc = "call"
    /\ call.f = "number_analysis"
    /\ call.done = "no"
    /\ call' = [f |-> call.f, n |-> call.n, dp |-> call.dp, done |-> "cpytoxlsf",
                result |-> number_analysis_xlsf(PyInt(call.n), call.dp)]
    /\ UNCHANGED <<pc, dspffdpf, fx, s, rx, hx, maxwidths, bx, breakvalue, rowno,
                   row, cx, lastwrite, colset>>

NextNumber == CallNumberAnalysis \/ CallNumberAnalysisXlsf
SpecNumber == InitNumber /\ [][NextNumber]_vars

\* The edit codes tried: the supported ones in both cases, and others.
EditCodes ==
    { <<"1">>, <<"2">>, <<"3">>, <<"4">>, <<"n">>, <<"o">>, <<"p">>, <<"q">>, <<"N">>, <<"O">>, <<"P">>, <<"Q">>,
      <<>>, <<"5">>, <<"A">>, <<"J">>, <<"Z">>, <<"-">>, <<"1", "2">>, <<"N", "Q">>, <<"1", " ">> }

InitEditcode ==
    /\ pc = "call"
    /\ Start(<<>>)
    /\ \E code \in EditCodes, dp \in 0..MaxDecimals :
         call = [f |-> "editcode", code |-> code, dp |-> dp, done |-> "no"]

\* editcode(code, dp), the same function in both programs
CallEditcode ==
    /\ pc = "call"
    /\ call.f = "editcode"
    /\ call.done = "no"
    /\ call' = [f |-> call.f, code |-> call.code, dp |-> call.dp, done |-> "yes",
                result |-> editcode(call.code, call.dp)]
    /\ UNCHANGED <<pc, dspffdpf, fx, s, rx, hx, maxwidths, bx, breakvalue, rowno,
                   row, cx, lastwrite, colset>>

NextEditcode == CallEditcode
SpecEditcode == InitEditcode /\ [][NextEditcode]_vars

\* charwidths of cpytoxlsf.py (Arial 10): the characters of each group and
\* 1000 * their width.
charwidths_xlsf ==
  <<
    [chars |-> <<"'", "j", "l">>, w |-> 88178],
    [chars |-> <<"i", "t">>, w |-> 117096],
    [chars |-> <<" ", "!", ",", ".", "/", ":", ";", "I", "[", "\\", "]", "f", "|">>, w |-> 146015],
    [chars |-> <<"\"", "(", ")", "-", GraveAccent, "r", "{", "}">>, w |-> 175407],
    [chars |-> <<"*", "^", "v", "x">>, w |-> 203852],
    [chars |-> <<"k", "s", "z">>, w |-> 233244],
    [chars |-> <<"0">>, w |-> 262637],
    [chars |-> <<"+", "<", "=", ">", "F", "~">>, w |-> 291556],
    [chars |-> <<"&", "A", "B", "E", "H", "K", "N", "P", "R", "S", "U", "V", "X", "Y", "w">>, w |-> 321422],
    [chars |-> <<"C", "D", "G", "O", "Q">>, w |-> 350341],
    [chars |-> <<"M", "m">>, w |-> 379259],
    [chars |-> <<"%">>, w |-> 438044],
    [chars |-> <<"@", "W">>, w |-> 496356]
  >>

\* fitwidth(data, bold) of cpytoxlsf.py for the text x = str(data); units
\* is kept in 1/10000 so that the factor 1.1 of bold text is exact.
fitwidth(x, bold) ==
    LET units == 220 * 1000 + SumWidths(charwidths_xlsf, x)
        weighted == IF bold THEN 11 * units ELSE 10 * units
    IN  Max(weighted, 700 * 10000) \div 10000

\* Longest text measured.
MaxTextLen == 2
\* The characters of the texts measured: narrow, wide, blank, digit, one
\* that only the table of cpytoxlsx3.py holds, one that no table holds.
WidthChars == {"i", "W", " ", "0", "J", "\t"}
WidthTexts == UNION {[1..n -> WidthChars] : n \in 0..MaxTextLen}

InitWidth ==
    /\ pc = "call"
    /\ Start(<<>>)
    /\ \E x \in WidthTexts, bold \in BOOLEAN :
         call = [f |-> "textwidth", data |-> x, bold |-> bold, done |-> "no"]

\* textwidth(data, bold) of cpytoxlsx3.py
CallTextwidth ==
    /\ pc = "call"
    /\ call.f = "textwidth"
    /\ call.done = "no"
    /\ call' = [f |-> call.f, data |-> call.data, bold |-> call.bold,
                done |-> "cpytoxlsx3", result |-> textwidth(call.data, call.bold)]
    /\ UNCHANGED <<pc, dspffdpf, fx, s, rx, hx, maxwidths, bx, breakvalue, rowno,
                   row, cx, lastwrite, colset>>

\* fitwidth(data, bold) of cpytoxlsf.py
CallFitwidth ==
    /\ pc = "call"
    /\ call.f = "textwidth"
    /\ call.done = "no"
    /\ call' = [f |-> call.f, data |-> call.data, bold |-> call.bold,
                done |-> "cpytoxlsf", result |-> fitwidth(call.data, call.bold)]
    /\ UNCHANGED <<pc, dspffdpf, fx, s, rx, hx, maxwidths, bx, breakvalue, rowno,
                   row, cx, lastwrite, colset>>

NextWidth == CallTextwidth \/ CallFitwidth
SpecWidth == InitWidth /\ [][NextWidth]_vars

\* The sizes and edit words classified: character fields (no digits) of 6
\* and 8 bytes, zoned numeric fields of 5 to 9 digits with 0 or 2 decimal
\* places, each with every edit word.
FieldSizes ==
    {[digits |-> 0, dp |-> 0, bytes |-> b] : b \in {6, 8}}
        \cup {[digits |-> d, dp |-> p, bytes |-> d] : d \in 5..9, p \in {0, 2}}
EditWords ==
    { EditWordDate1, EditWordDate2, EditWordTime1, EditWordTime2,
      <<>>, <<"'", " ", " ", "-", " ", " ", "-", " ", " ", "'">>, <<"'", " ", " ", " ", " ", ".", " ", " ", ".", " ", " ", "'">> }

InitClassify ==
    /\ pc = "call"
    /\ Start(<<>>)
    /\ \E size \in FieldSizes, ewrd \in EditWords :
         call = [f |-> "classify", size |-> size, ewrd |-> ewrd, done |-> "no"]

\* "Set field size and type" and "Check whether it looks like a numeric
\* date or time" of sheetinfo for one field
CallClassify ==
    /\ pc = "call"
    /\ call.f = "classify"
    /\ call.done = "no"
    /\ LET fieldsize == field_size(call.size.digits, call.size.dp, call.size.bytes)
       IN  call' = [f |-> call.f, size |-> call.size, ewrd |-> call.ewrd,
                    done |-> "yes",
                    result |-> [date |-> is_numeric_date(fieldsize, call.ewrd),
                                time |-> is_numeric_time(fieldsize, call.ewrd)]]
    /\ UNCHANGED <<pc, dspffdpf, fx, s, rx, hx, maxwidths, bx, breakvalue, rowno,
                   row, cx, lastwrite, colset>>

NextClassify == CallClassify
SpecClassify == InitClassify /\ [][NextClassify]_vars

\* The field texts scanned for a format string: an annotation (or none)
\* with the keyword in either case, between other words of the text.
FormatPatterns == {<<"#", ",", "#", "#", "0", ".", "0", "0">>, <<"0", ".", "0">>, <<>>, <<"@">>}
FormatAnnotations == {NoMatch} \cup {Match(p) : p \in FormatPatterns}
FormatPrefixes == {<<"f", "o", "r", "m", "a", "t", "=">>, <<"A", "m", "o", "u", "n", "t", " ", "F", "O", "R", "M", "A", "T", "=">>}
FormatSuffixes == {<<>>, <<" ", "w", "i", "d", "t", "h", "=", "1", "2">>}
\* The field text with the annotation a; with no annotation the keyword is
\* followed by a pattern without quotes, which is no format string.
FormatText(prefix, a, suffix) ==
    IF a.found THEN prefix \o <<"\"">> \o a.g \o <<"\"">> \o suffix
    ELSE prefix \o <<"0", ".", "0", "0">> \o suffix
FormatEditCodes == {<<"1">>, <<"4">>, <<>>}

InitFormat ==
    /\ pc = "call"
    /\ Start(<<>>)
    /\ \E prefix \in FormatPrefixes, a \in FormatAnnotations,
          suffix \in FormatSuffixes, numeric \in BOOLEAN,
          edtcde \in FormatEditCodes, dp \in 0..MaxDecimals :
         call = [f |-> "number_format", explicit |-> a,
                 fieldtext |-> FormatText(prefix, a, suffix),
                 numeric |-> numeric, edtcde |-> edtcde, dp |-> dp,
                 done |-> "no"]

\* "Look for number format string" of sheetinfo for one field: what
\* s.numformats and s.commaflags get, "unset" for no entry
CallNumberFormat ==
    /\ pc = "call"
    /\ call.f = "number_format"
    /\ call.done = "no"
    /\ LET numformat == number_format(call.fieldtext, call.numeric,
                                      call.edtcde, call.dp)
           comma == IF ~numformat.found THEN "unset"
                    ELSE IF comma_flag(numformat) THEN "true" ELSE "false"
       IN  call' = [f |-> call.f, explicit |-> call.explicit,
                    fieldtext |-> call.fieldtext, numeric |-> call.numeric,
                    edtcde |-> call.edtcde, dp |-> call.dp, done |-> "yes",
                    result |-> [numformat |-> numformat, comma |-> comma]]
    /\ UNCHANGED <<pc, dspffdpf, fx, s, rx, hx, maxwidths, bx, breakvalue, rowno,
                   row, cx, lastwrite, colset>>

NextFormat == CallNumberFormat
SpecFormat == InitFormat /\ [][NextFormat]_vars

\* The packed values decoded: every month and day (minute and second) of
\* two digits, after the years of a field of 8 digits, or the hours of a
\* field of 6 digits, that begin, end or lie within the valid range.
DecodeKinds == {"date", "time"}
LeadingParts(kind) == IF kind = "date" THEN {0, 1, 2024, 9999} ELSE {0, 9, 23, 99}
TwoDigits == 0..99
\* The plan of a sheet whose only column D is date- or time-flagged.
DecodePlan(kind) ==
    [NewSheetInfo EXCEPT !.fieldlist = <<<<"D">>>>,
                         !.headings = DictSet(<<>>, <<"D">>, <<"D">>),
                         !.dateflags = DictSet(<<>>, <<"D">>, kind = "date"),
                         !.timeflags = DictSet(<<>>, <<"D">>, kind = "time")]

InitDecode ==
    /\ pc = "call"
    /\ Start(<<>>)
    /\ \E kind \in DecodeKinds :
         \E a \in LeadingParts(kind), b \in TwoDigits, c \in TwoDigits :
             call = [f |-> "decode", kind |-> kind, parts |-> <<a, b, c>>,
                     value |-> a * 10000 + b * 100 + c, done |-> "no"]

\* The write of one int value of a date- or time-flagged column: the
\* results of the two divmod calls, and the write made with them
CallDecode ==
    /\ pc = "call"
    /\ call.f = "decode"
    /\ call.done = "no"
    /\ call' = [f |-> call.f, kind |-> call.kind, parts |-> call.parts,
                value |-> call.value, done |-> "yes",
                result |-> [decoded |-> decode3(call.value),
                            write |-> cell_write(DecodePlan(call.kind), <<"D">>,
                                                 PyInt(call.value))]]
    /\ UNCHANGED <<pc, dspffdpf, fx, s, rx, hx, maxwidths, bx, breakvalue, rowno,
                   row, cx, lastwrite, colset>>

NextDecode == CallDecode
SpecDecode == InitDecode /\ [][NextDecode]_vars

----------------------------------------------------------------------------
(* The claims.                                                             *)

\* The fetched row of dspffdpf that describes field number i of the table.
Described(i) == fetch_dspffd(dspffdpf[i])
\* The position in the table (and so in every data row) of the field name.
TablePosition(name) == CHOOSE i \in 1..Len(dspffdpf) : Described(i).whflde = name
TableFieldNames == {Described(i).whflde : i \in 1..Len(dspffdpf)}
\* A cell of the data row in hand has been handled.
CellHandled == rowno >= 1 /\ lastwrite # NoWrite /\ lastwrite.rx = rx

\* C1: every field that is not skipped and whose heading lines, joined and
\* stripped, are empty has its field name as column heading, and a heading
\* is empty only for the heading text *BLANK or *BLANKS in any case.
C1_EmptyHeadingIsFieldName ==
    \A i \in 1..fx :
        LET r == Described(i)
        IN  ~is_skip(r.whchd) =>
              /\ heading_text(r.whchd) = <<>> => s.headings[r.whflde] = r.whflde
              /\ s.headings[r.whflde] = <<>> =>
                     upper(heading_text(r.whchd)) \in {<<"*", "B", "L", "A", "N", "K">>, <<"*", "B", "L", "A", "N", "K", "S">>}

\* C2: the value written to and measured for output column cx of a data row
\* is the row's value of the plan's cx-th field, which is no *SKIP field.
C2_CellHoldsValueOfPlanField ==
    CellHandled =>
        LET name == s.fieldlist[lastwrite.cx + 1]
        IN  /\ lastwrite.value = row[TablePosition(name)]
            /\ ~is_skip(Described(TablePosition(name)).whchd)
            /\ \A i \in 1..Len(dspffdpf) :
                   is_skip(Described(i).whchd) => lastwrite.cx + 1 # i

\* C3: with a break field, a row takes two worksheet rows (a blank row
\* goes before it) exactly when it is not the first data row and its value
\* of the break field differs from that of the row before it, and one
\* worksheet row otherwise.
C3_BlankRowExactlyOnChange ==
    [][ (pc = "rows" /\ pc' = "cells" /\ Truthy(s.breakfield)) =>
          LET b == TablePosition(s.breakfield.s)
              changed == rowno >= 1 /\ ~PyEq(row'[b], row[b])
          IN  rx' = IF changed THEN rx + 2 ELSE rx + 1 ]_vars

\* C4: after the first row of dspffdpf the break field is the upper-cased
\* token of 'break on <token>' when that names a field of the table that is
\* exported, and '' otherwise.
C4_BreakFieldIsTableField ==
    fx >= 1 =>
        LET match == search_break_on(Described(1).whtext)
        IN  s.breakfield =
              IF match.found /\ upper(match.g) \in TableFieldNames
              THEN PyStr(upper(match.g)) ELSE PyStr(<<>>)

\* C5: the accumulator of a column without explicit width starts as the
\* bold width of the heading and no later step lowers it.
AutofitColumns == {col \in 1..Len(s.fieldlist) : ~HasKey(s.colwidths, s.fieldlist[col])}
C5_AccumulatorNeverLowered ==
    [][ /\ (pc = "headings" /\ pc' # "headings") =>
             \A col \in AutofitColumns :
                 maxwidths'[col] = textwidth(s.headings[s.fieldlist[col]], TRUE)
        /\ pc \in {"rows", "cells"} =>
             \A col \in AutofitColumns : maxwidths'[col] >= maxwidths[col] ]_vars

\* C6: the width set for a column is its explicit width when the field
\* text gives one, and otherwise a maximum that takes in the bold width of
\* the heading, so it is never less than that width.
C6_EmittedWidthCoversHeading ==
    pc = "done" =>
        \A col \in 1..Len(s.fieldlist) :
            LET name == s.fieldlist[col]
                explicit == search_width(Described(TablePosition(name)).whftxt)
            IN  IF explicit.found
                THEN colset[col] = int(explicit.g) * WidthUnit
                ELSE colset[col] >= textwidth(s.headings[name], TRUE)

\* C7: the one write of a cell is the first case that applies, in the order
\* native timestamp, date, time; date flag; time flag; blank on zero; number
\* format; wrap; text; unstyled.  A flagged or blank-on-zero cell whose value
\* is zero gets no write.
C7_WritePrecedence ==
    CellHandled =>
        LET f == lastwrite.field
            v == lastwrite.value
            style == lastwrite.style
            native == v.t \in {"datetime", "date", "time"}
            dated == ~native /\ s.dateflags[f]
            timed == ~native /\ ~dated /\ s.timeflags[f]
            blanked == /\ ~native /\ ~dated /\ ~timed
                       /\ HasKey(s.blankzeros, f) /\ IsNum(v) /\ v.n = 0
            plain == ~native /\ ~dated /\ ~timed /\ ~blanked
            formatted == plain /\ HasKey(s.numformats, f)
            wrapping == plain /\ ~formatted /\ HasKey(s.wrapped, f)
            textual == plain /\ ~formatted /\ ~wrapping /\ v.t = "str"
        IN  /\ v.t = "datetime" => style = "timestamp_style"
            /\ v.t = "date" => style = "date_style"
            /\ v.t = "time" => style = "time_style"
            /\ dated => style = IF Truthy(v) THEN "date_style" ELSE "nothing"
            /\ timed => style = IF Truthy(v) THEN "time_style" ELSE "nothing"
            /\ blanked => style = "nothing"
            /\ formatted => style = "numformat"
            /\ wrapping => style = "wrapped_style"
            /\ textual => style = "text_style"
            /\ (plain /\ ~formatted /\ ~wrapping /\ ~textual) => style = "unstyled"
            /\ (dated \/ timed) => style # "numformat"
            /\ blanked => style \notin {"numformat", "wrapped_style", "text_style"}

\* A date-flagged column that also has a number format got a date.
C7_Witness ==
    /\ CellHandled
    /\ s.dateflags[lastwrite.field]
    /\ HasKey(s.numformats, lastwrite.field)
    /\ lastwrite.style = "date_style"
    /\ lastwrite.ymd = <<2024, 1, 15>>

\* C8: a data row whose number of values is not the number of plan entries
\* ends the export before any of its cells is handled.
C8_MismatchedRowNotWritten ==
    (rowno >= 1 /\ Len(row) # Len(s.fieldlist)) => lastwrite.rx # rx

\* The number of decimal digits of n, 1 for 0, without counting divisions.
DigitCount(n) == CHOOSE k \in 1..MaxDigits : n < Pow10(k) /\ (k = 1 \/ n >= Pow10(k - 1))

\* C9 as stated: digit_count is integer_digit_count(n) + decimal_places and
\* thousands_groups is (integer_digit_count(n) - 1) \div 3.
C9_DigitsAreIntegerDigitsPlusDecimals ==
    (call.f = "number_analysis" /\ call.done = "cpytoxlsx3") =>
        /\ call.result.digits = DigitCount(call.n) + call.dp
        /\ call.result.thousands = (DigitCount(call.n) - 1) \div 3

\* C9 as amended: cpytoxlsx3.py counts the decimal point as one more digit
\* when decimal_places > 0; cpytoxlsf.py does not.
C9_DigitsCountThePoint ==
    call.f = "number_analysis" =>
        /\ call.done = "cpytoxlsx3" =>
             /\ call.result.digits =
                  DigitCount(call.n) + call.dp + (IF call.dp > 0 THEN 1 ELSE 0)
             /\ call.result.thousands = (DigitCount(call.n) - 1) \div 3
        /\ call.done = "cpytoxlsf" =>
             /\ call.result.digits = DigitCount(call.n) + call.dp
             /\ call.result.thousands = (DigitCount(call.n) - 1) \div 3

\* number_analysis(1000000, 2) has been called.
C9_Witness ==
    /\ call.f = "number_analysis"
    /\ call.done = "cpytoxlsx3"
    /\ call.n = 1000000
    /\ call.dp = 2
    /\ call.result.digits = 10
    /\ call.result.thousands = 2

\* The sub-patterns of a format string: pattern.split(';')
RECURSIVE SubPatterns(_)
SubPatterns(x) ==
    IF ~InSeq(";", x) THEN <<x>>
    ELSE LET i == Least({k \in 1..Len(x) : x[k] = ";"})
         IN  <<SubSeq(x, 1, i - 1)>> \o SubPatterns(SubSeq(x, i + 1, Len(x)))

EditcodeCalled(code, dp) ==
    call.f = "editcode" /\ call.done = "yes" /\ call.code = code /\ call.dp = dp

\* C10 as stated: editcode('Q', 0) has a negative sub-pattern with a leading
\* minus and a third sub-pattern that is not empty and shows a literal 0.
C10_EditcodeQHasZeroBranch ==
    EditcodeCalled(<<"Q">>, 0) =>
        LET parts == SubPatterns(call.result)
        IN  /\ Len(parts) = 3
            /\ parts[2] # <<>> /\ parts[2][1] = "-"
            /\ parts[3] # <<>> /\ InSeq("0", parts[3])

\* C10 as amended: editcode('Q', 0) is '#;-#;': the negative sub-pattern is
\* the positive one after a minus, the zero sub-pattern is empty.
C10_EditcodeQHasEmptyZeroBranch ==
    EditcodeCalled(<<"Q">>, 0) =>
        LET parts == SubPatterns(call.result)
        IN  /\ Len(parts) = 3
            /\ parts[1] = <<"#">>
            /\ parts[2] = <<"-">> \o parts[1]
            /\ parts[3] = <<>>

C10_Witness == EditcodeCalled(<<"Q">>, 0) /\ call.result = <<"#", ";", "-", "#", ";">>

\* The edit codes of the claim, in either letter case.
SupportedCodes ==
    {<<"1">>, <<"2">>, <<"3">>, <<"4">>, <<"n">>, <<"o">>, <<"p">>, <<"q">>, <<"N">>, <<"O">>, <<"P">>, <<"Q">>}
LeadingMinusCodes == {<<"n">>, <<"o">>, <<"p">>, <<"q">>, <<"N">>, <<"O">>, <<"P">>, <<"Q">>}
SeparatorCodes == {<<"1">>, <<"2">>, <<"n">>, <<"o">>, <<"N">>, <<"O">>}
LiteralZeroCodes == {<<"1">>, <<"3">>, <<"n">>, <<"p">>, <<"N">>, <<"P">>}
\* A pattern with its last character replaced by '0'.
LastReplacedByZero(x) == SubSeq(x, 1, Len(x) - 1) \o <<"0">>
\* What the claim says of the result of editcode for a supported code.
SupportedCodeTriple(code, result) ==
    LET parts == SubPatterns(result)
    IN  /\ Len(parts) = 3
        /\ parts[1] # <<>>
        /\ (parts[2] # <<>> /\ parts[2][1] = "-") <=> code \in LeadingMinusCodes
        /\ InSeq(",", parts[1]) <=> code \in SeparatorCodes
        /\ InSeq(",", parts[2]) <=> code \in SeparatorCodes
        /\ IF code \in LiteralZeroCodes
           THEN parts[3] = LastReplacedByZero(parts[1])
           ELSE parts[3] = <<>>

\* C11 as stated: a supported code gives the triple with minus, separator
\* and zero sub-pattern as listed, and every other code gives '0' followed
\* by '.' and decimal_places zeros, for every decimal_places >= 0.
C11_EditcodeTripleOrPointedDefault ==
    (call.f = "editcode" /\ call.done = "yes") =>
        IF call.code \in SupportedCodes
        THEN SupportedCodeTriple(call.code, call.result)
        ELSE call.result = <<"0">> \o <<".">> \o Zeros(call.dp)

\* C11 as amended: a supported code gives the triple with minus, separator
\* and zero sub-pattern as listed, and every other code gives '0', followed
\* by '.' and decimal_places zeros only when decimal_places > 0 (the bare
\* '0' for decimal_places = 0), with no separator and no ';'.
C11_EditcodeTripleOrDefault ==
    (call.f = "editcode" /\ call.done = "yes") =>
        IF call.code \in SupportedCodes
        THEN SupportedCodeTriple(call.code, call.result)
        ELSE /\ call.result =
                  IF call.dp > 0 THEN <<"0">> \o <<".">> \o Zeros(call.dp) ELSE <<"0">>
             /\ ~InSeq(",", call.result)
             /\ ~InSeq(";", call.result)

\* An unsupported code with no decimal places gives the bare '0'.
C11_Witness == EditcodeCalled(<<"Z">>, 0) /\ call.result = <<"0">>

\* C12: for every text, the empty one included, and both weights, textwidth
\* of cpytoxlsx3.py returns at least 2 width units and fitwidth of
\* cpytoxlsf.py returns at least 700 units.
C12_WidthAtLeastTheFloor ==
    call.f = "textwidth" =>
        /\ call.done = "cpytoxlsx3" => call.result >= 2 * WidthUnit
        /\ call.done = "cpytoxlsf" => call.result >= 700

\* The heading the claim describes: the non-empty lines joined by one space.
NonEmptyLine(line) == line # <<>>
JoinedNonEmptyLines(colhdg) == strip(join(<<" ">>, SelectSeq(colhdg, NonEmptyLine)))

\* C13: the heading of every field of the plan whose heading lines hold a
\* text other than *BLANK, *BLANKS is the non-empty heading lines joined
\* by exactly one space each, with the outer whitespace stripped.
C13_HeadingJoinsNonEmptyLines ==
    \A i \in 1..fx :
        LET r == Described(i)
            expected == JoinedNonEmptyLines(r.whchd)
        IN  (/\ ~is_skip(r.whchd)
             /\ expected # <<>>
             /\ upper(expected) \notin {<<"*", "B", "L", "A", "N", "K">>, <<"*", "B", "L", "A", "N", "K", "S">>})
            => s.headings[r.whflde] = expected

\* C14: once the first row of dspffdpf is processed the break field is
\* resolved, to a name or to '' for none, and no later step changes it,
\* whatever the record text of a later row says.
C14_BreakFieldFixedByFirstRecord ==
    [][/\ fx' >= 1 => s'.breakfield # None
       /\ fx >= 1 => s'.breakfield = s.breakfield]_vars

\* Two rows processed: the first resolved the break field to none, the
\* record text of the second names a column the code takes for valid.
C14_Witness ==
    /\ fx = 2
    /\ ~search_break_on(Described(1).whtext).found
    /\ search_break_on(Described(2).whtext).found
    /\ InSeq(upper(search_break_on(Described(2).whtext).g), all_fields)
    /\ s.breakfield = PyStr(<<>>)

\* C15: a field is date-flagged exactly when it is numeric with 8 digits,
\* no decimal places and one of the two date edit words, time-flagged
\* exactly when it is numeric with 6 digits, no decimal places and one of
\* the two time edit words, never both, and a character field is never
\* flagged, whatever its byte length and edit word.
C15_FlagsFollowShapeAndEditWord ==
    (call.f = "classify" /\ call.done = "yes") =>
        LET numeric == call.size.digits # 0
            shape == <<call.size.digits, call.size.dp>>
        IN  /\ call.result.date <=>
                 (/\ numeric
                  /\ shape = <<8, 0>>
                  /\ call.ewrd \in {<<"'", " ", " ", " ", " ", "-", " ", " ", "-", " ", " ", "'">>, <<"'", " ", " ", " ", " ", "/", " ", " ", "/", " ", " ", "'">>})
            /\ call.result.time <=>
                 (/\ numeric
                  /\ shape = <<6, 0>>
                  /\ call.ewrd \in {<<"'", " ", " ", ".", " ", " ", ".", " ", " ", "'">>, <<"'", " ", " ", ":", " ", " ", ":", " ", " ", "'">>})
            /\ ~(call.result.date /\ call.result.time)
            /\ ~numeric => (~call.result.date /\ ~call.result.time)

\* A character field of 8 bytes with a date edit word is not flagged.
C15_Witness ==
    /\ call.f = "classify" /\ call.done = "yes"
    /\ call.size.digits = 0 /\ call.size.bytes = 8
    /\ call.ewrd = <<"'", " ", " ", " ", " ", "-", " ", " ", "-", " ", " ", "'">>
    /\ ~call.result.date /\ ~call.result.time

\* C16: the number format of a field is the pattern of the format="..."
\* annotation of its field text when there is one, for numeric and
\* character fields and any edit code; without one it is the edit-code
\* pattern for a numeric field and none for a character field; and the
\* comma flag is recorded as true exactly when the format holds a ','.
C16_ExplicitFormatWins ==
    (call.f = "number_format" /\ call.done = "yes") =>
        LET expected == IF call.explicit.found THEN call.explicit
                        ELSE IF call.numeric
                             THEN Match(editcode(call.edtcde, call.dp))
                             ELSE NoMatch
        IN  /\ call.result.numformat = expected
            /\ call.result.comma = "true" <=>
                   (expected.found /\ InSeq(",", expected.g))

\* A numeric field with edit code 1 and the annotation format="0.0".
C16_Witness ==
    /\ call.f = "number_format" /\ call.done = "yes"
    /\ call.numeric /\ call.edtcde = <<"1">> /\ call.explicit = Match(<<"0", ".", "0">>)
    /\ call.result.numformat = Match(<<"0", ".", "0">>)
    /\ call.result.comma = "false"

\* The rows of dspffdpf processed so far, and those among them whose
\* heading text is *SKIP in any case.
ProcessedFields == [i \in 1..fx |-> Described(i)]
SkipHeading(r) == upper(heading_text(r.whchd)) = <<"*", "S", "K", "I", "P">>
KeptField(r) == ~SkipHeading(r)
PlanTables ==
    <<s.headings, s.numformats, s.dateflags, s.timeflags, s.commaflags,
      s.decplaces, s.colwidths, s.wrapped, s.blankzeros>>

\* C17: the field list of the plan is the sequence of the source fields
\* processed without those whose heading text is *SKIP in any case, in
\* the same order, and a skipped field has no entry in any table of the
\* plan; this is so after every row of dspffdpf processed, and of the plan
\* that sheetinfo returns (no later step changes s).
C17_PlanIsSourceMinusSkipped ==
    pc \in {"sheetinfo", "headings"} =>
        LET kept == SelectSeq(ProcessedFields, KeptField)
        IN  /\ s.fieldlist = [i \in 1..Len(kept) |-> kept[i].whflde]
            /\ \A i \in 1..fx :
                   SkipHeading(Described(i)) =>
                       \A k \in 1..Len(PlanTables) :
                           Described(i).whflde \notin DOMAIN PlanTables[k]

\* A table of two fields read entirely: the first is skipped (its heading
\* is *skip in lower case), the plan holds the second only.
C17_Witness ==
    /\ pc = "headings"
    /\ Len(dspffdpf) = 2
    /\ SkipHeading(Described(1))
    /\ ~SkipHeading(Described(2))
    /\ s.fieldlist = <<Described(2).whflde>>

\* C18: once the plan is built, a break field that is a name is an element
\* of the field list of the plan, so that fieldlist.index finds it.
C18_BreakFieldIsInPlan ==
    (pc \notin {"call", "sheetinfo"} /\ Truthy(s.breakfield)) =>
        InSeq(s.breakfield.s, s.fieldlist)

\* C19: for a date-flagged column the value y*10000 + m*100 + d, not zero,
\* with m and d in 0..99, is decoded to year y, month m and day d, and for
\* a time-flagged column h*10000 + mi*100 + s to hour h, minute mi and
\* second s; a date or time written is the one of these three parts.
C19_DecodeInvertsPacking ==
    (call.f = "decode" /\ call.done = "yes" /\ call.value # 0) =>
        /\ call.result.decoded = call.parts
        /\ call.result.write.style # "nothing" =>
               /\ call.result.write.style =
                      (IF call.kind = "date" THEN "date_style" ELSE "time_style")
               /\ call.result.write.ymd = call.parts

\* The value 20240115 of a date-flagged column is written as 2024-01-15.
C19_Witness ==
    /\ call.f = "decode" /\ call.done = "yes"
    /\ call.kind = "date" /\ call.value = 20240115
    /\ call.result.write = Written("date_style", <<2024, 1, 15>>)
====
